---- MODULE Spec2Model ----
(***************************************************************************)
(* A model of the sysinfo_dot_h crate (src/lib.rs): the #[repr(C)] struct  *)
(* sysinfo, the extern "C" function sysinfo and the two wrappers            *)
(* try_collect and collect, called from several threads.                   *)
(***************************************************************************)
EXTENDS Integers, Sequences, FiniteSets

\* ------------------------------------------------------------- bounds

\* The kernel's uptime counter runs from 0 up to this many seconds.
MaxUptime == 2
\* A failing native call leaves at most this many leading fields written.
MaxPartial == 2

\* ------------------------------------------------------ struct layout

\* size_of::<c_ushort>() (procs, pad).
ShortBytes == 2
\* size_of::<c_uint>() (mem_unit).
IntBytes == 4
\* size_of::<c_char>() (an element of _f).
CharBytes == 1
\* Length of the array loads.
NLoads == 3
\* Length of the array _f as the crate declares it.
RustPadLen == 0

\* size_of::<c_long>() = size_of::<c_ulong>() on the Linux targets: 4 on the
\* 32-bit ones (i686, armv7, ...), 8 on the 64-bit ones.
LongSizes == {4, 8}

\* Length of _f in the platform's struct sysinfo of <sys/sysinfo.h>:
\* char _f[20 - 2 x sizeof(long) - sizeof(int)].
NativePadLen(L) == 20 - 2 * L - IntBytes

\* The fields of struct sysinfo, in declaration order.
Fields ==
    << "uptime", "loads", "totalram", "freeram", "sharedram", "bufferram",
       "totalswap", "freeswap", "procs", "pad", "totalhigh", "freehigh",
       "mem_unit", "_f" >>

NFields == Len(Fields)

\* The fields that hold a value a caller can read (all but the padding _f).
Named == { Fields[i] : i \in 1..(NFields - 1) }

\* Byte size of a field for c_long of L bytes and _f of padLen elements.
FieldSize(f, L, padLen) ==
    CASE f = "loads"              -> NLoads * L
      [] f \in {"procs", "pad"}   -> ShortBytes
      [] f = "mem_unit"           -> IntBytes
      [] f = "_f"                 -> padLen * CharBytes
      [] OTHER                    -> L

\* Alignment of a field (that of its element type).
FieldAlign(f, L) ==
    CASE f \in {"procs", "pad"}   -> ShortBytes
      [] f = "mem_unit"           -> IntBytes
      [] f = "_f"                 -> CharBytes
      [] OTHER                    -> L

\* n rounded up to a multiple of a.
AlignUp(n, a) == ((n + a - 1) \div a) * a

\* repr(C): each field at the next offset that satisfies its alignment.
RECURSIVE FieldOffset(_, _, _)
FieldOffset(i, L, padLen) ==
    IF i = 1 THEN 0
    ELSE AlignUp(FieldOffset(i - 1, L, padLen)
                   + FieldSize(Fields[i - 1], L, padLen),
                 FieldAlign(Fields[i], L))

FieldEnd(i, L, padLen) ==
    FieldOffset(i, L, padLen) + FieldSize(Fields[i], L, padLen)

\* repr(C): the struct's alignment is its largest field alignment (c_long's).
StructAlign(L) == L

\* size_of the struct: the end of the last field, rounded up to the alignment.
StructSize(L, padLen) == AlignUp(FieldEnd(NFields, L, padLen), StructAlign(L))

\* size_of::<sysinfo>() as the crate compiles on a target with c_long of L bytes.
RustSize(L) == StructSize(L, RustPadLen)

\* sizeof(struct sysinfo) of the platform: what the native call writes.
NativeSize(L) == StructSize(L, NativePadLen(L))

\* Layout tables, one per target.
RustOffsets == [L \in LongSizes |-> [i \in 1..NFields |-> FieldOffset(i, L, RustPadLen)]]
NativeOffsets == [L \in LongSizes |-> [i \in 1..NFields |-> FieldOffset(i, L, NativePadLen(L))]]
NativeEnds == [L \in LongSizes |-> [i \in 1..NFields |-> FieldEnd(i, L, NativePadLen(L))]]
RustSizes == [L \in LongSizes |-> RustSize(L)]

\* --------------------------------------------------------------- state

\* The threads of the calling program.
Threads == {"t1", "t2"}

\* Return values of the native call: 0 is success; the C library returns -1
\* on failure, and the wrappers accept any c_int.
StatusCodes == {-1, 0, 1}

Ops == {"try_collect", "collect"}

VARIABLES
    long,     \* size_of::<c_long>() of the target the crate was compiled for
    clock,    \* the kernel's seconds since boot
    pc,       \* pc[t]: where thread t is in its call
    op,       \* op[t]: the wrapper thread t is running
    mem,      \* mem[s]: the bytes of stack slot s, read as the fields of sysinfo
    result,   \* result[t]: the local `result` of try_collect (line 89)
    ret,      \* ret[t]: what the call returned to its caller
    nat,      \* nat[t]: the outcome of the native call thread t made (history)
    ncalls,   \* ncalls[t]: native calls made by the current invocation (history)
    oob,      \* oob[t]: bytes the native call wrote past the end of the buffer
    seen,     \* largest uptime a completed successful call has returned (history)
    floor     \* floor[t]: `seen` when thread t's call started (history)

vars == << long, clock, pc, op, mem, result, ret, nat, ncalls, oob, seen, floor >>

Max(a, b) == IF a >= b THEN a ELSE b

IndexOf(f) == CHOOSE i \in 1..NFields : Fields[i] = f

\* std::mem::zeroed(): every field zero.
Zeroed == [f \in Named |-> 0]

\* A variant of InitInfo: the local is left uninitialised and keeps the
\* bytes its stack slot held.
UninitInfo(old) == old

\* `let mut info: sysinfo = std::mem::zeroed();` (lines 88, 118): the new
\* local takes a stack slot that holds `old`, and is zeroed.
InitInfo(old) == Zeroed

\* A variant of BufOf: one static buffer that every call uses.
SharedBuf(t) == "t1"

\* The stack slot that holds thread t's local `info`: each call has its own.
BufOf(t) == t

\* A variant of KernelValue: an uptime counted from one second after boot.
KernelValueLate(f, up) ==
    CASE f = "uptime"          -> up - 1
      [] f \in {"pad", "_f"}   -> 0
      [] OTHER                 -> 1

\* What the kernel reports in field f when its uptime is up.
KernelValue(f, up) ==
    CASE f = "uptime"          -> up
      [] f \in {"pad", "_f"}   -> 0
      [] OTHER                 -> 1

\* The fields of the crate's struct that the native call overwrote when it
\* stored its first n fields: the platform's layout puts one of them at the
\* offset, and with the size, the crate's layout gives the field.
OverwrittenBy ==
    [L \in LongSizes |-> [n \in 0..NFields |->
        { f \in Named :
            \E j \in 1..n :
               /\ NativeOffsets[L][j] = RustOffsets[L][IndexOf(f)]
               /\ FieldSize(Fields[j], L, NativePadLen(L))
                    = FieldSize(f, L, RustPadLen) }]]

Overwritten(L, n) == OverwrittenBy[L][n]

\* The buffer after the native call stored its first n fields.
NativeStore(buf, L, n, up) ==
    [f \in Named |->
        IF f \in Overwritten(L, n) THEN KernelValue(f, up) ELSE buf[f]]

\* Bytes of the native struct written when its first n fields were stored
\* (all of them: the whole struct, its tail padding included).
BytesWritten(L, n) ==
    IF n = 0 THEN 0
    ELSE IF n = NFields THEN NativeSize(L)
    ELSE NativeEnds[L][n]

\* Bytes written past the end of a buffer of size_of::<sysinfo>() bytes.
OutOfBounds(L, n) == Max(0, BytesWritten(L, n) - RustSizes[L])

\* A variant of IsSuccess: only a negative status counts as a failure.
IsNonNegative(status) == status >= 0

\* `if result == 0` (line 90).
IsSuccess(status) == status = 0

\* A variant of ErrOf: the error carries the status code.
ErrWithStatus(status) ==
    [kind |-> "Err", msg |-> "Failed to get the sysinfo struct", code |-> status]

\* `Err("Failed to get the sysinfo struct".to_string())` (line 93).
ErrOf(status) == [kind |-> "Err", msg |-> "Failed to get the sysinfo struct"]

\* The value try_collect returns (lines 90-94).
TryCollectResult(status, buf) ==
    IF IsSuccess(status) THEN [kind |-> "Ok", val |-> buf] ELSE ErrOf(status)

\* A variant of CollectResult: a failed call returns a zeroed struct instead
\* of the buffer.
CollectChecked(status, buf) ==
    [kind |-> "Val", val |-> IF status = 0 THEN buf ELSE Zeroed]

\* The value collect returns (line 120): the buffer, whatever the status
\* the native call returned (line 119 drops it).
CollectResult(status, buf) == [kind |-> "Val", val |-> buf]

NoResult == [kind |-> "none"]
NoOutcome == [status |-> 0, written |-> 0, up |-> 0, buf |-> Zeroed, made |-> FALSE]

\* The process has not died.
Alive == \A t \in Threads : pc[t] # "crashed"

\* How many leading fields a native call with this status may have stored:
\* all of them on success, a (possibly empty) prefix on failure.
WrittenChoices(status) ==
    IF status = 0 THEN {NFields} ELSE 0..MaxPartial

\* ------------------------------------------------------------- actions

Init ==
    /\ long \in LongSizes
    /\ clock = 0
    /\ pc = [t \in Threads |-> "idle"]
    /\ op = [t \in Threads |-> "collect"]
    /\ mem = [s \in Threads |-> Zeroed]
    /\ result = [t \in Threads |-> 0]
    /\ ret = [t \in Threads |-> NoResult]
    /\ nat = [t \in Threads |-> NoOutcome]
    /\ ncalls = [t \in Threads |-> 0]
    /\ oob = [t \in Threads |-> 0]
    /\ seen = 0
    /\ floor = [t \in Threads |-> 0]

\* A second passes on the machine.
Tick ==
    /\ Alive
    /\ clock < MaxUptime
    /\ clock' = clock + 1
    /\ UNCHANGED << long, pc, op, mem, result, ret, nat, ncalls, oob, seen, floor >>

\* Thread t enters try_collect or collect and runs
\* `let mut info: sysinfo = std::mem::zeroed();` (lines 88, 118).
Enter(t, o) ==
    /\ Alive
    /\ pc[t] = "idle"
    /\ pc' = [pc EXCEPT ![t] = "zeroed"]
    /\ op' = [op EXCEPT ![t] = o]
    /\ mem' = [mem EXCEPT ![BufOf(t)] = InitInfo(@)]
    /\ floor' = [floor EXCEPT ![t] = seen]
    /\ UNCHANGED << long, clock, result, ret, nat, ncalls, oob, seen >>

\* `sysinfo(&mut info)` (lines 89, 119): the kernel stores into the buffer
\* and returns a status; try_collect keeps it in `result`, collect drops it.
Native(t, status, n) ==
    /\ Alive
    /\ pc[t] = "zeroed"
    /\ n \in WrittenChoices(status)
    /\ pc' = [pc EXCEPT ![t] = "called"]
    /\ mem' = [mem EXCEPT ![BufOf(t)] = NativeStore(@, long, n, clock)]
    /\ result' = [result EXCEPT ![t] = IF op[t] = "try_collect" THEN status ELSE @]
    /\ nat' = [nat EXCEPT ![t] =
                 [status |-> status, written |-> n, up |-> clock,
                  buf |-> mem'[BufOf(t)], made |-> TRUE]]
    /\ ncalls' = [ncalls EXCEPT ![t] = @ + 1]
    /\ oob' = [oob EXCEPT ![t] = OutOfBounds(long, n)]
    /\ UNCHANGED << long, clock, op, ret, seen, floor >>

\* The bytes stored past the end of `info` overwrote whatever the build put
\* next to it on the stack: nothing that matters (Return stays enabled), or
\* a saved register or return address, and the process dies: no thread
\* takes another step.
Crash(t) ==
    /\ Alive
    /\ pc[t] = "called"
    /\ oob[t] > 0
    /\ pc' = [pc EXCEPT ![t] = "crashed"]
    /\ UNCHANGED << long, clock, op, mem, result, ret, nat, ncalls, oob, seen, floor >>

\* Whether a returned call counts as successful: try_collect returned Ok,
\* collect's native call returned 0.
CallSucceeded(o, r, status) ==
    IF o = "try_collect" THEN r.kind = "Ok" ELSE status = 0

\* The wrapper returns (lines 90-94, 120).
Return(t) ==
    /\ Alive
    /\ pc[t] = "called"
    /\ LET r == IF op[t] = "try_collect"
                  THEN TryCollectResult(result[t], mem[BufOf(t)])
                  ELSE CollectResult(nat[t].status, mem[BufOf(t)])
       IN /\ ret' = [ret EXCEPT ![t] = r]
          /\ seen' = IF CallSucceeded(op[t], r, nat[t].status)
                       THEN Max(seen, r.val["uptime"])
                       ELSE seen
    /\ pc' = [pc EXCEPT ![t] = "done"]
    /\ UNCHANGED << long, clock, op, mem, result, nat, ncalls, oob, floor >>

\* The caller has used the result; the thread may call again. The bytes of
\* the old `info` stay where they were on the stack.
Finish(t) ==
    /\ Alive
    /\ pc[t] = "done"
    /\ pc' = [pc EXCEPT ![t] = "idle"]
    /\ ret' = [ret EXCEPT ![t] = NoResult]
    /\ nat' = [nat EXCEPT ![t] = NoOutcome]
    /\ oob' = [oob EXCEPT ![t] = 0]
    /\ op' = [op EXCEPT ![t] = "collect"]
    /\ result' = [result EXCEPT ![t] = 0]
    /\ ncalls' = [ncalls EXCEPT ![t] = 0]
    /\ floor' = [floor EXCEPT ![t] = 0]
    /\ UNCHANGED << long, clock, mem, seen >>

Next ==
    \/ Tick
    \/ \E t \in Threads, o \in Ops : Enter(t, o)
    \/ \E t \in Threads, status \in StatusCodes, n \in 0..NFields : Native(t, status, n)
    \/ \E t \in Threads : Crash(t)
    \/ \E t \in Threads : Return(t)
    \/ \E t \in Threads : Finish(t)

Spec == Init /\ [][Next]_vars

\* -------------------------------------------------------------- claims

Returned(t, o) == pc[t] = "done" /\ op[t] = o

\* C1: a returned try_collect gave Ok exactly when the native status was 0;
\* the Ok payload is the buffer as the native call left it, field for field;
\* for any other status it gave Err, which holds no snapshot.
C1_OkIffStatusZero ==
    \A t \in Threads :
        Returned(t, "try_collect") =>
            /\ ret[t].kind \in {"Ok", "Err"}
            /\ ret[t].kind = "Ok" <=> nat[t].status = 0
            /\ ret[t].kind = "Ok" => ret[t].val = nat[t].buf
            /\ ret[t].kind = "Err" => "val" \notin DOMAIN ret[t]

C1_Witness ==
    \E t, u \in Threads :
        /\ Returned(t, "try_collect") /\ ret[t].kind = "Ok"
        /\ ret[t].val["uptime"] >= 1
        /\ Returned(u, "try_collect") /\ ret[u].kind = "Err"
        /\ nat[u].status = 1

\* C2: collect never fails: whatever the native call returned and stored, a
\* thread that entered collect is never in an error state (an Err result, or
\* the process dead).
C2_CollectNeverFails ==
    \A t \in Threads :
        op[t] = "collect" =>
            /\ pc[t] # "crashed"
            /\ ret[t].kind \in {"none", "Val"}

\* C3: when collect's native call failed, every field the call did not
\* overwrite is zero in the returned snapshot, and the whole snapshot is
\* zero when the call wrote nothing: nothing of an earlier call is left.
C3_FailedCollectIsZeroed ==
    \A t \in Threads :
        (Returned(t, "collect") /\ nat[t].status # 0) =>
            /\ \A f \in Named \ Overwritten(long, nat[t].written) :
                  ret[t].val[f] = 0
            /\ nat[t].written = 0 => ret[t].val = Zeroed

C3_Witness ==
    \E t \in Threads :
        /\ Returned(t, "collect") /\ nat[t].status # 0
        /\ nat[t].written = 1
        /\ ret[t].val["uptime"] >= 1
        /\ ret[t].val["totalram"] = 0
        /\ floor[t] >= 1

\* C4: the crate's struct is as large as the platform's, so a native call
\* stores nothing past the end of the buffer it was given.
C4_SizesMatch ==
    \A t \in Threads :
        pc[t] = "called" =>
            /\ RustSize(long) = NativeSize(long)
            /\ oob[t] = 0

\* C5: for the same native outcome collect returns the snapshot try_collect
\* returns in Ok (status 0), and the buffer try_collect dropped (any other
\* status).
C5_CollectMatchesTryCollect ==
    \A t, u \in Threads :
        ( /\ Returned(t, "collect") /\ Returned(u, "try_collect")
          /\ nat[t].status = nat[u].status
          /\ nat[t].written = nat[u].written
          /\ nat[t].up = nat[u].up ) =>
            /\ ret[t].kind = "Val"
            /\ nat[u].status = 0 => ret[u] = [kind |-> "Ok", val |-> ret[t].val]
            /\ nat[u].status # 0 =>
                  /\ ret[u].kind = "Err"
                  /\ ret[t].val = mem[BufOf(u)]

C5_Witness ==
    \E t, u \in Threads :
        /\ Returned(t, "collect") /\ Returned(u, "try_collect")
        /\ nat[t].status = -1 /\ nat[u].status = -1
        /\ nat[t].written = 1 /\ nat[u].written = 1
        /\ nat[t].up = 1 /\ nat[u].up = 1

C7_OneErrorValue ==
    \A t, u \in Threads :
        (Returned(t, "try_collect") /\ nat[t].status # 0) =>
            /\ ret[t] = [kind |-> "Err", msg |-> "Failed to get the sysinfo struct"]
            /\ (Returned(u, "try_collect") /\ nat[u].status # 0) => ret[u] = ret[t]

C7_Witness ==
    \E t, u \in Threads :
        /\ Returned(t, "try_collect") /\ nat[t].status = -1
        /\ Returned(u, "try_collect") /\ nat[u].status = 1

\* C8: under every interleaving each call works on its own zeroed snapshot:
\* its buffer is zero until its own native call, holds what that call left
\* from then on, and its result is a function of that call's outcome alone.
C8_NoInterference ==
    \A t \in Threads :
        /\ pc[t] = "zeroed" => mem[BufOf(t)] = Zeroed
        /\ pc[t] \in {"called", "done"} =>
              /\ mem[BufOf(t)] = nat[t].buf
              /\ nat[t].buf = NativeStore(Zeroed, long, nat[t].written, nat[t].up)
        /\ pc[t] = "done" =>
              ret[t] = IF op[t] = "collect"
                         THEN [kind |-> "Val", val |-> nat[t].buf]
                       ELSE IF nat[t].status = 0
                         THEN [kind |-> "Ok", val |-> nat[t].buf]
                       ELSE [kind |-> "Err", msg |-> "Failed to get the sysinfo struct"]

C8_Witness ==
    \E t, u \in Threads :
        /\ t # u
        /\ pc[t] = "called" /\ pc[u] = "done"
        /\ nat[t].status = 0 /\ nat[u].status # 0
        /\ nat[t].up > nat[u].up

\* C9: a successful call never returns an uptime smaller than one returned
\* by a successful call that had completed before it started.
C9_UptimeMonotonic ==
    \A t \in Threads :
        (pc[t] = "done" /\ CallSucceeded(op[t], ret[t], nat[t].status)) =>
            ret[t].val["uptime"] >= floor[t]

C9_Witness ==
    \E t \in Threads :
        /\ pc[t] = "done" /\ CallSucceeded(op[t], ret[t], nat[t].status)
        /\ floor[t] >= 1

\* C10: an invocation makes exactly one native call and then returns: once
\* the call is made the invocation is returning or has returned, with one
\* call made.
C10_OneCallThenReturn ==
    \A t \in Threads :
        /\ pc[t] \in {"called", "done"} => ncalls[t] = 1
        /\ ncalls[t] >= 1 => pc[t] \in {"called", "done"}

====
